---- MODULE Spec2Model ----
(***************************************************************************)
(* Model of rust-core/src/lib.rs of Clawlet: the unified-diff hunk         *)
(* validator (validate_patch) and the bounded-time process executor        *)
(* (execute_command_argv).                                                 *)
(*                                                                         *)
(* Text is a sequence of characters, each character a one-character        *)
(* string; the token "U+0663" stands for the single character ARABIC-INDIC *)
(* DIGIT THREE, a Unicode decimal digit that the regex class \d matches    *)
(* and that str::parse::<usize> rejects.                                   *)
(***************************************************************************)
EXTENDS Integers, Sequences, FiniteSets, TLC

VARIABLES
    \* ---- validate_patch ----
    patch,          \* the argument: the patch text
    vp_pc,          \* position of the call: "idle", "start", "scan", "done"
    line_iter,      \* patch.lines(): the lines the loop has not read yet
    saw_hunk, in_hunk,
    expected_old, expected_new, seen_old, seen_new,
    vp_result,      \* the returned (valid, reason), NoResult before the return
    earlier,        \* history: an earlier call of validate_patch, as (patch,
                    \* result, a call on another text has returned since)
    \* ---- execute_command_argv, one entry per call ----
    argv, cwd, timeout_seconds,   \* the arguments (timeout in tenths of a second)
    pc,             \* position of each call
    status_opt,     \* what child.wait_timeout returned
    timed_out,
    bytes,          \* the Vec that the read_to_end in progress fills
    stdout_text, stderr_text,
    result,         \* the returned 5-tuple, NoResult before the return
    \* ---- the operating system around the calls ----
    now,            \* wall clock, in ticks of a tenth of a second
    deadline,       \* the tick at which each call's bounded wait expires
    child,          \* the child process of each call
    desc,           \* the child's descendant, which holds the write ends of
                    \* both pipes while it is alive
    pipe_out, pipe_err,       \* bytes buffered in the kernel, per pipe
    read_open,      \* the read ends of its pipes that the call still owns
    written_out, written_err, \* history: every byte the child wrote
    reaps, kills, spawns,     \* history: waitpid successes, SIGKILLs sent, spawns
    \* ---- the state of wait_timeout, one for the whole process ----
    installed,      \* the SIGCHLD handler is installed: some call of the
                    \* process has entered wait_timeout
    sigchld,        \* the pipe of the SIGCHLD handler holds a byte
    waiting,        \* the table of the children whose calls are waiting
    reaped_by       \* history: the call whose thread reaped each child, 0
                    \* before

vpVars == <<patch, vp_pc, line_iter, saw_hunk, in_hunk,
            expected_old, expected_new, seen_old, seen_new, vp_result,
            earlier>>
callVars == <<argv, cwd, timeout_seconds, pc, status_opt, timed_out,
              bytes, stdout_text, stderr_text, result>>
waitVars == <<installed, sigchld, waiting, reaped_by>>
osVars == <<now, deadline, child, desc, pipe_out, pipe_err, read_open,
            written_out, written_err, reaps, kills, spawns, waitVars>>
vars == <<vpVars, callVars, osVars>>

NoResult == <<>>

(***************************************************************************)
(* Bounds of the model.                                                    *)
(***************************************************************************)
MaxLines == 3
SeqLines == 2       \* lines of a patch in a sequence of calls
PipeCap == 1        \* bytes a pipe buffers before a write blocks
MaxScript == 2      \* steps of a child's program
MaxTimeout == 2     \* largest timeout argument, in tenths of a second

(***************************************************************************)
(* Characters and strings.                                                 *)
(***************************************************************************)
AsciiDigits == {"0", "1", "2", "3", "4", "5", "6", "7", "8", "9"}
NonAsciiDigits == {"U+0663"}
\* char::is_whitespace, the characters str::trim removes: U+0009..U+000D,
\* U+0020, U+0085, U+00A0, U+1680, U+2000..U+200A, U+2028, U+2029, U+202F,
\* U+205F, U+3000; a character TLA+ cannot write is the token of its code
WhiteSpace == {"\t", "\n", "U+000B", "\f", "\r", " ", "U+0085", "U+00A0",
               "U+1680", "U+2000", "U+2001", "U+2002", "U+2003", "U+2004",
               "U+2005", "U+2006", "U+2007", "U+2008", "U+2009", "U+200A",
               "U+2028", "U+2029", "U+202F", "U+205F", "U+3000"}

\* the regex class \d (Unicode decimal digits)
IsDigit(c) == c \in AsciiDigits \cup NonAsciiDigits

DigitVal(c) ==
    CASE c = "0" -> 0 [] c = "1" -> 1 [] c = "2" -> 2 [] c = "3" -> 3
      [] c = "4" -> 4 [] c = "5" -> 5 [] c = "6" -> 6 [] c = "7" -> 7
      [] c = "8" -> 8 [] c = "9" -> 9

\* the text of a character sequence, as a string value
RECURSIVE Str(_)
Str(s) == IF s = <<>> THEN "" ELSE Head(s) \o Str(Tail(s))

\* str::starts_with
StartsWithAt(s, i, p) ==
    /\ i + Len(p) - 1 <= Len(s)
    /\ \A k \in 1..Len(p) : s[i + k - 1] = p[k]

StartsWith(s, p) == StartsWithAt(s, 1, p)

\* as TrimIsEmpty, without the trim
TrimIsEmpty_NoTrim(text) == text = <<>>

\* patch.trim().is_empty(): nothing but white space
TrimIsEmpty(text) == \A k \in 1..Len(text) : text[k] \in WhiteSpace

\* position of the first "\n" of text at or after i, 0 when there is none
RECURSIVE FindNewline(_, _)
FindNewline(text, i) ==
    IF i > Len(text) THEN 0
    ELSE IF text[i] = "\n" THEN i
    ELSE FindNewline(text, i + 1)

\* str::lines: pieces end at each "\n"; the "\n" and a "\r" right before it
\* are dropped; a text ending in "\n" has no extra empty last line
RECURSIVE Lines(_)
Lines(text) ==
    IF text = <<>> THEN <<>>
    ELSE LET k == FindNewline(text, 1) IN
         IF k = 0 THEN <<text>>
         ELSE LET piece == SubSeq(text, 1, k - 1)
                  line  == IF piece /= <<>> /\ piece[Len(piece)] = "\r"
                           THEN SubSeq(piece, 1, Len(piece) - 1)
                           ELSE piece
              IN <<line>> \o Lines(SubSeq(text, k + 1, Len(text)))

(***************************************************************************)
(* The hunk header: ^@@ -(\d+)(?:,(\d+))? \+(\d+)(?:,(\d+))? @@            *)
(***************************************************************************)
\* length of the run of \d characters of s that starts at position i
RECURSIVE DigitRun(_, _)
DigitRun(s, i) ==
    IF i <= Len(s) /\ IsDigit(s[i]) THEN 1 + DigitRun(s, i + 1) ELSE 0

NoGroup == [some |-> FALSE, str |-> <<>>]

\* (?:,(\d+))? at position i: the capture and the position after the group
OptCount(s, i) ==
    IF i <= Len(s) /\ s[i] = "," /\ DigitRun(s, i + 1) > 0
    THEN [cap |-> [some |-> TRUE,
                   str |-> SubSeq(s, i + 1, i + DigitRun(s, i + 1))],
          next |-> i + 1 + DigitRun(s, i + 1)]
    ELSE [cap |-> NoGroup, next |-> i]

NoMatch == [matched |-> FALSE, g2 |-> NoGroup, g4 |-> NoGroup]

\* hunk_re.captures(line): groups 2 and 4 of a match at the start of line
Captures(line) ==
    IF ~StartsWith(line, <<"@", "@", " ", "-">>) THEN NoMatch
    ELSE LET n1 == DigitRun(line, 5) IN
    IF n1 = 0 THEN NoMatch
    ELSE LET c2 == OptCount(line, 5 + n1) IN
    IF ~StartsWithAt(line, c2.next, <<" ", "+">>) THEN NoMatch
    ELSE LET n3 == DigitRun(line, c2.next + 2) IN
    IF n3 = 0 THEN NoMatch
    ELSE LET c4 == OptCount(line, c2.next + 2 + n3) IN
    IF ~StartsWithAt(line, c4.next, <<" ", "@", "@">>) THEN NoMatch
    ELSE [matched |-> TRUE, g2 |-> c2.cap, g4 |-> c4.cap]

\* usize::MAX on a 64-bit target, as its decimal digits
UsizeMaxDigits ==
    <<"1", "8", "4", "4", "6", "7", "4", "4", "0", "7",
      "3", "7", "0", "9", "5", "5", "1", "6", "1", "5">>

RECURSIVE StripZeros(_)
StripZeros(ds) ==
    IF ds /= <<>> /\ Head(ds) = "0" THEN StripZeros(Tail(ds)) ELSE ds

\* a < b for two digit strings of the same length
RECURSIVE DigitsLess(_, _)
DigitsLess(a, b) ==
    IF a = <<>> THEN FALSE
    ELSE IF Head(a) /= Head(b) THEN DigitVal(Head(a)) < DigitVal(Head(b))
    ELSE DigitsLess(Tail(a), Tail(b))

RECURSIVE Horner(_, _)
Horner(ds, acc) ==
    IF ds = <<>> THEN acc ELSE Horner(Tail(ds), 10 * acc + DigitVal(Head(ds)))

\* str::parse::<usize> on a non-empty run of \d characters: only ASCII
\* digits are accepted and the value has to fit the type
ParseUsize(ds) ==
    LET sig == StripZeros(ds) IN
    IF \E k \in 1..Len(ds) : ds[k] \notin AsciiDigits
        THEN [ok |-> FALSE, val |-> 0]
    ELSE IF \/ Len(sig) > Len(UsizeMaxDigits)
            \/ Len(sig) = Len(UsizeMaxDigits) /\ DigitsLess(UsizeMaxDigits, sig)
        THEN [ok |-> FALSE, val |-> 0]
    ELSE [ok |-> TRUE, val |-> Horner(sig, 0)]

\* as ExpectedCount, with 0 for a count that is left out
ExpectedCount_DefaultZero(cap) ==
    IF ~cap.some THEN 0
    ELSE IF ParseUsize(cap.str).ok THEN ParseUsize(cap.str).val
    ELSE 1

\* caps.get(n).map(|m| m.as_str().parse::<usize>().unwrap_or(1)).unwrap_or(1)
ExpectedCount(cap) ==
    IF ~cap.some THEN 1
    ELSE IF ParseUsize(cap.str).ok THEN ParseUsize(cap.str).val
    ELSE 1

(***************************************************************************)
(* validate_patch                                                          *)
(***************************************************************************)
OldMismatch(eo, so) ==
    "Old-side hunk line count mismatch: expected " \o ToString(eo)
        \o ", got " \o ToString(so)

NewMismatch(en, sn) ==
    "New-side hunk line count mismatch: expected " \o ToString(en)
        \o ", got " \o ToString(sn)

\* the close-out check of a hunk: the reason of the failure, "ok" when it passes
CloseOut(eo, en, so, sn) ==
    IF eo > 0 /\ so /= eo THEN OldMismatch(eo, so)
    ELSE IF en > 0 /\ sn /= en THEN NewMismatch(en, sn)
    ELSE "ok"

\* as LineEffect, with a removed line counted on both sides
LineEffect_MinusBoth(line) ==
    IF StartsWith(line, <<" ">>) THEN [kind |-> "count", old |-> 1, new |-> 1]
    ELSE IF StartsWith(line, <<"-">>) THEN [kind |-> "count", old |-> 1, new |-> 1]
    ELSE IF StartsWith(line, <<"+">>) THEN [kind |-> "count", old |-> 0, new |-> 1]
    ELSE IF StartsWith(line, <<"\\", " ", "N", "o", " ", "n", "e", "w", "l", "i", "n", "e">>)
        THEN [kind |-> "skip", old |-> 0, new |-> 0]
    ELSE IF StartsWith(line, <<"-", "-", "-", " ">>) \/ StartsWith(line, <<"+", "+", "+", " ">>)
        THEN [kind |-> "skip", old |-> 0, new |-> 0]
    ELSE [kind |-> "fail", old |-> 0, new |-> 0]

\* what a line read in a hunk does: "count" with the increments of the two
\* counters, "skip", or "fail"
LineEffect(line) ==
    IF StartsWith(line, <<" ">>) THEN [kind |-> "count", old |-> 1, new |-> 1]
    ELSE IF StartsWith(line, <<"-">>) THEN [kind |-> "count", old |-> 1, new |-> 0]
    ELSE IF StartsWith(line, <<"+">>) THEN [kind |-> "count", old |-> 0, new |-> 1]
    ELSE IF StartsWith(line, <<"\\", " ", "N", "o", " ", "n", "e", "w", "l", "i", "n", "e">>)
        THEN [kind |-> "skip", old |-> 0, new |-> 0]
    ELSE IF StartsWith(line, <<"-", "-", "-", " ">>) \/ StartsWith(line, <<"+", "+", "+", " ">>)
        THEN [kind |-> "skip", old |-> 0, new |-> 0]
    ELSE [kind |-> "fail", old |-> 0, new |-> 0]

EmptyReason == "Patch is empty"
NoHunkReason == "Patch must contain at least one unified diff hunk (@@ ...)."
UnsupportedReason(line) == "Unsupported patch line in hunk: " \o Str(line)

vpReturn(valid, reason) ==
    /\ vp_result' = <<valid, reason>>
    /\ vp_pc' = "done"

\* as ValidateStart, with the flags and counters kept from the call before
ValidateStart_NoReset ==
    /\ vp_pc = "start"
    /\ IF TrimIsEmpty(patch)
       THEN /\ vpReturn(FALSE, EmptyReason)
            /\ UNCHANGED line_iter
       ELSE /\ vp_pc' = "scan"
            /\ line_iter' = Lines(patch)
            /\ UNCHANGED vp_result
    /\ UNCHANGED <<patch, saw_hunk, in_hunk, expected_old, expected_new,
                   seen_old, seen_new, earlier, callVars, osVars>>

\* entry: the blank check, then the loop's iterator and the locals
ValidateStart ==
    /\ vp_pc = "start"
    /\ IF TrimIsEmpty(patch)
       THEN /\ vpReturn(FALSE, EmptyReason)
            /\ UNCHANGED <<line_iter, saw_hunk, in_hunk, expected_old,
                           expected_new, seen_old, seen_new>>
       ELSE /\ vp_pc' = "scan"
            /\ line_iter' = Lines(patch)
            /\ saw_hunk' = FALSE
            /\ in_hunk' = FALSE
            /\ expected_old' = 0
            /\ expected_new' = 0
            /\ seen_old' = 0
            /\ seen_new' = 0
            /\ UNCHANGED vp_result
    /\ UNCHANGED <<patch, earlier, callVars, osVars>>

\* as ScanHeader, with the counters of the hunk before carried on
ScanHeader_NoReset ==
    /\ vp_pc = "scan"
    /\ line_iter /= <<>>
    /\ Captures(Head(line_iter)).matched
    /\ LET caps == Captures(Head(line_iter))
           r == CloseOut(expected_old, expected_new, seen_old, seen_new)
       IN IF in_hunk /\ r /= "ok"
          THEN /\ vpReturn(FALSE, r)
               /\ UNCHANGED <<line_iter, saw_hunk, in_hunk, expected_old,
                              expected_new, seen_old, seen_new>>
          ELSE /\ saw_hunk' = TRUE
               /\ in_hunk' = TRUE
               /\ expected_old' = ExpectedCount(caps.g2)
               /\ expected_new' = ExpectedCount(caps.g4)
               /\ line_iter' = Tail(line_iter)
               /\ UNCHANGED <<vp_pc, vp_result, seen_old, seen_new>>
    /\ UNCHANGED <<patch, earlier, callVars, osVars>>

\* one iteration of the loop on a line that is a hunk header
ScanHeader ==
    /\ vp_pc = "scan"
    /\ line_iter /= <<>>
    /\ Captures(Head(line_iter)).matched
    /\ LET caps == Captures(Head(line_iter))
           r == CloseOut(expected_old, expected_new, seen_old, seen_new)
       IN IF in_hunk /\ r /= "ok"
          THEN /\ vpReturn(FALSE, r)
               /\ UNCHANGED <<line_iter, saw_hunk, in_hunk, expected_old,
                              expected_new, seen_old, seen_new>>
          ELSE /\ saw_hunk' = TRUE
               /\ in_hunk' = TRUE
               /\ expected_old' = ExpectedCount(caps.g2)
               /\ expected_new' = ExpectedCount(caps.g4)
               /\ seen_old' = 0
               /\ seen_new' = 0
               /\ line_iter' = Tail(line_iter)
               /\ UNCHANGED <<vp_pc, vp_result>>
    /\ UNCHANGED <<patch, earlier, callVars, osVars>>

\* as ScanPreamble, with the line checked like a line of a hunk
ScanPreamble_Strict ==
    /\ vp_pc = "scan"
    /\ line_iter /= <<>>
    /\ ~Captures(Head(line_iter)).matched
    /\ ~in_hunk
    /\ IF LineEffect(Head(line_iter)).kind = "fail"
       THEN /\ vpReturn(FALSE, UnsupportedReason(Head(line_iter)))
            /\ UNCHANGED line_iter
       ELSE /\ line_iter' = Tail(line_iter)
            /\ UNCHANGED <<vp_pc, vp_result>>
    /\ UNCHANGED <<patch, saw_hunk, in_hunk, expected_old, expected_new,
                   seen_old, seen_new, earlier, callVars, osVars>>

\* as ScanPreamble, with a line that is no file header rejected
ScanPreamble_MetaOnly ==
    /\ vp_pc = "scan"
    /\ line_iter /= <<>>
    /\ ~Captures(Head(line_iter)).matched
    /\ ~in_hunk
    /\ IF \/ StartsWith(Head(line_iter), <<"-", "-", "-", " ">>)
          \/ StartsWith(Head(line_iter), <<"+", "+", "+", " ">>)
          \/ StartsWith(Head(line_iter), <<"d", "i", "f", "f", " ">>)
          \/ StartsWith(Head(line_iter), <<"i", "n", "d", "e", "x", " ">>)
       THEN /\ line_iter' = Tail(line_iter)
            /\ UNCHANGED <<vp_pc, vp_result>>
       ELSE /\ vpReturn(FALSE, UnsupportedReason(Head(line_iter)))
            /\ UNCHANGED line_iter
    /\ UNCHANGED <<patch, saw_hunk, in_hunk, expected_old, expected_new,
                   seen_old, seen_new, earlier, callVars, osVars>>

\* one iteration of the loop on a line read before the first header
ScanPreamble ==
    /\ vp_pc = "scan"
    /\ line_iter /= <<>>
    /\ ~Captures(Head(line_iter)).matched
    /\ ~in_hunk
    /\ line_iter' = Tail(line_iter)
    /\ UNCHANGED <<patch, vp_pc, saw_hunk, in_hunk, expected_old, expected_new,
                   seen_old, seen_new, vp_result, earlier, callVars, osVars>>

\* one iteration of the loop on a line read inside a hunk
ScanHunkLine ==
    /\ vp_pc = "scan"
    /\ line_iter /= <<>>
    /\ ~Captures(Head(line_iter)).matched
    /\ in_hunk
    /\ LET e == LineEffect(Head(line_iter))
       IN IF e.kind = "fail"
          THEN /\ vpReturn(FALSE, UnsupportedReason(Head(line_iter)))
               /\ UNCHANGED <<line_iter, seen_old, seen_new>>
          ELSE /\ seen_old' = seen_old + e.old
               /\ seen_new' = seen_new + e.new
               /\ line_iter' = Tail(line_iter)
               /\ UNCHANGED <<vp_pc, vp_result>>
    /\ UNCHANGED <<patch, saw_hunk, in_hunk, expected_old, expected_new,
                   earlier, callVars, osVars>>

\* after the loop: the no-hunk check and the close-out of the last hunk
ValidateEnd ==
    /\ vp_pc = "scan"
    /\ line_iter = <<>>
    /\ LET r == CloseOut(expected_old, expected_new, seen_old, seen_new)
       IN IF ~saw_hunk THEN vpReturn(FALSE, NoHunkReason)
          ELSE IF in_hunk /\ r /= "ok" THEN vpReturn(FALSE, r)
          ELSE vpReturn(TRUE, "ok")
    /\ UNCHANGED <<patch, line_iter, saw_hunk, in_hunk, expected_old,
                   expected_new, seen_old, seen_new, earlier, callVars, osVars>>

\* the loop and the checks after it as a function of the lines still to read
\* and of the locals
RECURSIVE ScanLines(_, _, _, _, _, _, _)
ScanLines(ls, saw, inh, eo, en, so, sn) ==
    IF ls = <<>>
    THEN IF ~saw THEN <<FALSE, NoHunkReason>>
         ELSE IF inh /\ CloseOut(eo, en, so, sn) /= "ok"
              THEN <<FALSE, CloseOut(eo, en, so, sn)>>
         ELSE <<TRUE, "ok">>
    ELSE LET line == Head(ls)
             caps == Captures(line)
         IN IF caps.matched
            THEN IF inh /\ CloseOut(eo, en, so, sn) /= "ok"
                 THEN <<FALSE, CloseOut(eo, en, so, sn)>>
                 ELSE ScanLines(Tail(ls), TRUE, TRUE, ExpectedCount(caps.g2),
                                ExpectedCount(caps.g4), 0, 0)
            ELSE IF ~inh THEN ScanLines(Tail(ls), saw, inh, eo, en, so, sn)
            ELSE IF LineEffect(line).kind = "fail"
                 THEN <<FALSE, UnsupportedReason(line)>>
            ELSE ScanLines(Tail(ls), saw, inh, eo, en,
                           so + LineEffect(line).old, sn + LineEffect(line).new)

\* validate_patch as a function of the patch text
ValidatePatch(text) ==
    IF TrimIsEmpty(text) THEN <<FALSE, EmptyReason>>
    ELSE ScanLines(Lines(text), FALSE, FALSE, 0, 0, 0, 0)

(***************************************************************************)
(* execute_command_argv and the processes and pipes around it.             *)
(*                                                                         *)
(* Time is discrete: one tick is a tenth of a second.  The processes run   *)
(* at a pace of their own: a step of a child or of its descendant takes no *)
(* time and may be delayed by any number of ticks, and so may a step of    *)
(* the call itself; only a sleep of a child's program takes a tick.        *)
(*                                                                         *)
(* child.wait_timeout is the wait-timeout crate's.  On Unix it keeps one   *)
(* table for the whole process of the children whose calls are waiting,    *)
(* and one pipe that the SIGCHLD handler writes to: a waiting thread that  *)
(* finds the pipe readable calls try_wait on every child of the table,     *)
(* stores the status of each one that has exited in the table and wakes    *)
(* its caller.                                                             *)
(***************************************************************************)
Calls == {1, 2}

ArgvSet == {<<>>, <<"cmd", "arg">>}
CwdSet == {"", "dir"}
TimeoutSet == 0..MaxTimeout

\* steps of a child's program: idle for a tick, or write one byte
Ops == {"sleep", "out", "outbad", "err"}
Scripts == UNION {[1..n -> Ops] : n \in 0..MaxScript}

Exited(n) == [kind |-> "exited", code |-> n, sig |-> ""]
Signaled(s) == [kind |-> "signaled", code |-> 0, sig |-> s]
NoStatus == [kind |-> "none", code |-> 0, sig |-> ""]
SIGKILL == "SIGKILL"
SIGPIPE == "SIGPIPE"
SIGTERM == "SIGTERM"
\* the ways a child's program ends by itself
Plans == {Exited(0), Exited(1), Signaled(SIGTERM)}

NoChild == [state |-> "none", exe |-> "", args |-> <<>>, dir |-> "",
            prog |-> <<>>, ip |-> 1, plan |-> NoStatus,
            status |-> NoStatus]

\* a descendant of the child: a process the child started, which inherits
\* the write ends of both pipes and outlives a kill of the child
NoDesc == [state |-> "none", prog |-> <<>>, ip |-> 1]
Descendant(prog) == [state |-> "alive", prog |-> prog, ip |-> 1]

\* what a descendant writes before it idles: nothing, one byte, or more
\* than a pipe holds, to stdout or to stderr
DescScripts == {<<>>, <<"out">>,
                [k \in 1..(PipeCap + 1) |-> "out"],
                [k \in 1..(PipeCap + 1) |-> "err"]}

\* the read ends of a call's two pipes
BothOpen == [out |-> TRUE, err |-> TRUE]
BothClosed == [out |-> FALSE, err |-> FALSE]

\* an entry of the table of waiting children: reg while the call is in
\* the table, status once some thread has reaped the child for it
NotWaiting == [reg |-> FALSE, status |-> NoStatus]

\* the byte a write step writes
ByteOf(op) == CASE op = "out" -> 65 [] op = "outbad" -> 255 [] op = "err" -> 69

\* String::from_utf8_lossy: U+FFFD for a byte that is not valid UTF-8
LossyChar(b) == CASE b = 65 -> "A" [] b = 69 -> "E" [] b = 255 -> "U+FFFD"

RECURSIVE FromUtf8Lossy(_)
FromUtf8Lossy(bs) ==
    IF bs = <<>> THEN ""
    ELSE LossyChar(Head(bs)) \o FromUtf8Lossy(Tail(bs))

\* Duration::from_millis((timeout_seconds.max(0.001) * 1000.0) as u64), in
\* ticks: the floor of one millisecond is shorter than a tick
DurationTicks(t) == IF t >= 1 THEN t ELSE 0

\* format!("{:.1}", timeout_seconds) of t tenths of a second, t >= 0
FormatSeconds(t) == ToString(t \div 10) \o "." \o ToString(t % 10)

\* status.code().unwrap_or(-1)
StatusCode(st) == IF st.kind = "exited" THEN st.code ELSE -1

\* status.success()
StatusSuccess(st) == st.kind = "exited" /\ st.code = 0

\* as EmptyArgvResult, with the error left empty
EmptyArgvResult_NoError == <<FALSE, -1, "", "", "">>

EmptyArgvResult == <<FALSE, -1, "", "", "Empty argv">>

SpawnErrors == {"No such file or directory (os error 2)"}
SpawnErrorResult(e) == <<FALSE, -1, "", "", "Spawn error: " \o e>>

WaitErrors == {"Too many open files (os error 24)"}
WaitErrorResult(e) == <<FALSE, -1, "", "", "Wait error: " \o e>>

TimeoutResult(out, err, t) ==
    <<FALSE, -1, out, err, "Command timed out after " \o FormatSeconds(t) \o "s">>

\* as ExitResult, with the error left empty on a failure
ExitResult_NoError(st, out, err) ==
    <<StatusSuccess(st), StatusCode(st), out, err, "">>

ExitResult(st, out, err) ==
    <<StatusSuccess(st), StatusCode(st), out, err,
      IF StatusSuccess(st) THEN "" ELSE "Exit code: " \o ToString(StatusCode(st))>>

\* some process still holds the write end of call c's pipes
WriterOpen(c) == child[c].state = "running" \/ desc[c].state = "alive"

\* the interpreter lock: a #[pyfunction] holds it from entry to return, as
\* the body never releases it, so a call starts only while no other call
\* of the process is between its entry and its return
GilFree_None(c) == TRUE

GilFree(c) == \A d \in Calls \ {c} : pc[d] \in {"idle", "start", "done"}

Return(c, r) ==
    /\ result' = [result EXCEPT ![c] = r]
    /\ pc' = [pc EXCEPT ![c] = "done"]

\* argv.is_empty()
EmptyArgv(c) ==
    /\ pc[c] = "start"
    /\ GilFree(c)
    /\ argv[c] = <<>>
    /\ Return(c, EmptyArgvResult)
    /\ UNCHANGED <<vpVars, argv, cwd, timeout_seconds, status_opt, timed_out,
                   bytes, stdout_text, stderr_text, osVars>>

\* command.spawn() fails: the process made for the program cannot run it
\* and ends, which sends SIGCHLD, and spawn reaps it before it returns
SpawnFail(c) ==
    /\ pc[c] = "start"
    /\ GilFree(c)
    /\ argv[c] /= <<>>
    /\ \E e \in SpawnErrors : Return(c, SpawnErrorResult(e))
    /\ sigchld' = (sigchld \/ installed)
    /\ UNCHANGED <<vpVars, argv, cwd, timeout_seconds, status_opt, timed_out,
                   bytes, stdout_text, stderr_text, now, deadline, child, desc,
                   pipe_out, pipe_err, read_open, written_out, written_err,
                   reaps, kills, spawns, installed, waiting, reaped_by>>

\* command.spawn() succeeds; what the program does is the environment's
\* choice, and so is the descendant it leaves
SpawnOf(c, progs, plans, descs) ==
    /\ pc[c] = "start"
    /\ GilFree(c)
    /\ argv[c] /= <<>>
    /\ \E prog \in progs, plan \in plans, d \in descs :
         /\ child' = [child EXCEPT ![c] =
                [state |-> "running", exe |-> Head(argv[c]),
                 args |-> Tail(argv[c]),
                 dir |-> IF cwd[c] /= "" THEN cwd[c] ELSE "inherited",
                 prog |-> prog, ip |-> 1, plan |-> plan,
                 status |-> NoStatus]]
         /\ desc' = [desc EXCEPT ![c] = d]
    /\ read_open' = [read_open EXCEPT ![c] = BothOpen]
    /\ spawns' = [spawns EXCEPT ![c] = @ + 1]
    /\ pc' = [pc EXCEPT ![c] = "enter"]
    /\ UNCHANGED <<vpVars, argv, cwd, timeout_seconds, status_opt, timed_out,
                   bytes, stdout_text, stderr_text, result, now, deadline,
                   pipe_out, pipe_err, written_out, written_err, reaps, kills,
                   waitVars>>

\* the spawn of any program of the model
Spawn(c) ==
    SpawnOf(c, Scripts, Plans, {NoDesc} \cup {Descendant(p) : p \in DescScripts})

\* the programs of two calls made at the same time
PairScripts == {<<"out">>, <<"err", "sleep">>}
PairPlans == {Exited(0), Signaled(SIGTERM)}

\* a child of theirs may leave a descendant that holds the pipes, and
\* idles or writes a byte
PairDescs == {NoDesc, Descendant(<<>>), Descendant(<<"out">>)}

\* the spawn of a program of two calls made at the same time
SpawnPair(c) == SpawnOf(c, PairScripts, PairPlans, PairDescs)

\* child.wait_timeout(duration) returns Err(e): the handler is installed on
\* the first entry, then the pipe of the wait cannot be made.  The call
\* returns at once and drops the Child, which closes the read ends and
\* neither kills nor reaps.
WaitError(c) ==
    /\ pc[c] = "enter"
    /\ \E e \in WaitErrors : Return(c, WaitErrorResult(e))
    /\ read_open' = [read_open EXCEPT ![c] = BothClosed]
    /\ installed' = TRUE
    /\ UNCHANGED <<vpVars, argv, cwd, timeout_seconds, status_opt, timed_out,
                   bytes, stdout_text, stderr_text, now, deadline, child, desc,
                   pipe_out, pipe_err, written_out, written_err, reaps, kills,
                   spawns, sigchld, waiting, reaped_by>>

\* child.wait_timeout(duration) begins: the first entry of the process
\* installs the SIGCHLD handler; it calls try_wait, and returns
\* Ok(Some(status)) when the child has exited already; otherwise it enters
\* the child in the table and the duration starts to run
WaitEnter(c) ==
    /\ pc[c] = "enter"
    /\ installed' = TRUE
    /\ IF child[c].state = "zombie"
       THEN /\ status_opt' = [status_opt EXCEPT ![c] = child[c].status]
            /\ timed_out' = [timed_out EXCEPT ![c] = FALSE]
            /\ child' = [child EXCEPT ![c].state = "reaped"]
            /\ reaps' = [reaps EXCEPT ![c] = @ + 1]
            /\ reaped_by' = [reaped_by EXCEPT ![c] = c]
            /\ pc' = [pc EXCEPT ![c] = "drain_out"]
            /\ UNCHANGED <<deadline, waiting>>
       ELSE /\ waiting' = [waiting EXCEPT ![c] = [reg |-> TRUE, status |-> NoStatus]]
            /\ deadline' = [deadline EXCEPT ![c] =
                                now + DurationTicks(timeout_seconds[c])]
            /\ pc' = [pc EXCEPT ![c] = "wait"]
            /\ UNCHANGED <<status_opt, timed_out, child, reaps, reaped_by>>
    /\ UNCHANGED <<vpVars, argv, cwd, timeout_seconds, bytes, stdout_text,
                   stderr_text, result, now, desc, pipe_out, pipe_err,
                   read_open, written_out, written_err, kills, spawns, sigchld>>

\* inside child.wait_timeout: the thread of call c finds the pipe of the
\* SIGCHLD handler readable, empties it and calls try_wait on every child of
\* the table that has no status yet, its own and those of other calls; a
\* child that has exited is reaped and its status stored for its call
ProcessSigchld(c) ==
    /\ pc[c] = "wait"
    /\ sigchld
    /\ sigchld' = FALSE
    /\ LET Exits(d) == waiting[d].reg /\ waiting[d].status = NoStatus
                       /\ child[d].state = "zombie"
       IN /\ waiting' = [d \in Calls |->
                IF Exits(d) THEN [waiting[d] EXCEPT !.status = child[d].status]
                ELSE waiting[d]]
          /\ child' = [d \in Calls |->
                IF Exits(d) THEN [child[d] EXCEPT !.state = "reaped"] ELSE child[d]]
          /\ reaps' = [d \in Calls |-> IF Exits(d) THEN reaps[d] + 1 ELSE reaps[d]]
          /\ reaped_by' = [d \in Calls |-> IF Exits(d) THEN c ELSE reaped_by[d]]
    /\ UNCHANGED <<vpVars, callVars, now, deadline, desc, pipe_out, pipe_err,
                   read_open, written_out, written_err, kills, spawns,
                   installed>>

\* child.wait_timeout(duration) returns Ok(Some(status)): the table holds
\* the status of the child, stored by this thread or by another
WaitExited(c) ==
    /\ pc[c] = "wait"
    /\ waiting[c].status /= NoStatus
    /\ status_opt' = [status_opt EXCEPT ![c] = waiting[c].status]
    /\ timed_out' = [timed_out EXCEPT ![c] = FALSE]
    /\ waiting' = [waiting EXCEPT ![c] = NotWaiting]
    /\ pc' = [pc EXCEPT ![c] = "drain_out"]
    /\ UNCHANGED <<vpVars, argv, cwd, timeout_seconds, bytes, stdout_text,
                   stderr_text, result, now, deadline, child, desc, pipe_out,
                   pipe_err, read_open, written_out, written_err, reaps, kills,
                   spawns, installed, sigchld, reaped_by>>

\* child.wait_timeout(duration) returns Ok(None): the duration has elapsed,
\* the pipe of the SIGCHLD handler is empty and the table holds no status
\* for the child
WaitExpired(c) ==
    /\ pc[c] = "wait"
    /\ now >= deadline[c]
    /\ ~sigchld
    /\ waiting[c].status = NoStatus
    /\ status_opt' = [status_opt EXCEPT ![c] = NoStatus]
    /\ timed_out' = [timed_out EXCEPT ![c] = TRUE]
    /\ waiting' = [waiting EXCEPT ![c] = NotWaiting]
    /\ pc' = [pc EXCEPT ![c] = "kill"]
    /\ UNCHANGED <<vpVars, argv, cwd, timeout_seconds, bytes, stdout_text,
                   stderr_text, result, now, deadline, child, desc, pipe_out,
                   pipe_err, read_open, written_out, written_err, reaps, kills,
                   spawns, installed, sigchld, reaped_by>>

\* let _ = child.kill(): SIGKILL ends a running child and closes its
\* descriptors; it does nothing to a child that has already exited
Kill(c) ==
    /\ pc[c] = "kill"
    /\ child' = [child EXCEPT ![c] =
            IF @.state = "running"
            THEN [@ EXCEPT !.state = "zombie", !.status = Signaled(SIGKILL)]
            ELSE @]
    /\ sigchld' = (sigchld \/ (installed /\ child[c].state = "running"))
    /\ kills' = [kills EXCEPT ![c] = @ + 1]
    /\ pc' = [pc EXCEPT ![c] = "reap"]
    /\ UNCHANGED <<vpVars, argv, cwd, timeout_seconds, status_opt, timed_out,
                   bytes, stdout_text, stderr_text, result, now, deadline, desc,
                   pipe_out, pipe_err, read_open, written_out, written_err,
                   reaps, spawns, installed, waiting, reaped_by>>

\* let _ = child.wait(): blocks until the child has exited, then reaps it
Reap(c) ==
    /\ pc[c] = "reap"
    /\ child[c].state = "zombie"
    /\ child' = [child EXCEPT ![c].state = "reaped"]
    /\ reaps' = [reaps EXCEPT ![c] = @ + 1]
    /\ reaped_by' = [reaped_by EXCEPT ![c] = c]
    /\ pc' = [pc EXCEPT ![c] = "drain_out"]
    /\ UNCHANGED <<vpVars, argv, cwd, timeout_seconds, status_opt, timed_out,
                   bytes, stdout_text, stderr_text, result, now, deadline, desc,
                   pipe_out, pipe_err, read_open, written_out, written_err,
                   kills, spawns, installed, sigchld, waiting>>

\* out.read_to_end(&mut bytes), one read of its loop: it takes the bytes the
\* pipe holds, which makes room for a writer blocked on the pipe
ReadStdout(c) ==
    /\ pc[c] = "drain_out"
    /\ pipe_out[c] /= <<>>
    /\ bytes' = [bytes EXCEPT ![c] = @ \o pipe_out[c]]
    /\ pipe_out' = [pipe_out EXCEPT ![c] = <<>>]
    /\ UNCHANGED <<vpVars, argv, cwd, timeout_seconds, pc, status_opt, timed_out,
                   stdout_text, stderr_text, result, now, deadline, child, desc,
                   pipe_err, read_open, written_out, written_err, reaps, kills,
                   spawns, waitVars>>

\* out.read_to_end(&mut bytes) returns Err, at any read of its loop: is_ok()
\* is false, stdout_text stays empty, and the bytes read so far are dropped
\* with the Vec and the read end closed with the handle
FailStdout(c) ==
    /\ pc[c] = "drain_out"
    /\ bytes' = [bytes EXCEPT ![c] = <<>>]
    /\ read_open' = [read_open EXCEPT ![c].out = FALSE]
    /\ pc' = [pc EXCEPT ![c] = "drain_err"]
    /\ UNCHANGED <<vpVars, argv, cwd, timeout_seconds, status_opt, timed_out,
                   stdout_text, stderr_text, result, now, deadline, child, desc,
                   pipe_out, pipe_err, written_out, written_err, reaps, kills,
                   spawns, waitVars>>

\* out.read_to_end(&mut bytes) returns Ok, at end of file: the pipe is empty
\* and no process holds its write end; then from_utf8_lossy, and the handle
\* is dropped
DrainStdout(c) ==
    /\ pc[c] = "drain_out"
    /\ pipe_out[c] = <<>>
    /\ ~WriterOpen(c)
    /\ stdout_text' = [stdout_text EXCEPT ![c] = FromUtf8Lossy(bytes[c])]
    /\ bytes' = [bytes EXCEPT ![c] = <<>>]
    /\ read_open' = [read_open EXCEPT ![c].out = FALSE]
    /\ pc' = [pc EXCEPT ![c] = "drain_err"]
    /\ UNCHANGED <<vpVars, argv, cwd, timeout_seconds, status_opt, timed_out,
                   stderr_text, result, now, deadline, child, desc, pipe_out,
                   pipe_err, written_out, written_err, reaps, kills,
                   spawns, waitVars>>

\* err.read_to_end(&mut bytes), one read of its loop
ReadStderr(c) ==
    /\ pc[c] = "drain_err"
    /\ pipe_err[c] /= <<>>
    /\ bytes' = [bytes EXCEPT ![c] = @ \o pipe_err[c]]
    /\ pipe_err' = [pipe_err EXCEPT ![c] = <<>>]
    /\ UNCHANGED <<vpVars, argv, cwd, timeout_seconds, pc, status_opt, timed_out,
                   stdout_text, stderr_text, result, now, deadline, child, desc,
                   pipe_out, read_open, written_out, written_err, reaps, kills,
                   spawns, waitVars>>

\* err.read_to_end(&mut bytes) returns Err: stderr_text stays empty
FailStderr(c) ==
    /\ pc[c] = "drain_err"
    /\ bytes' = [bytes EXCEPT ![c] = <<>>]
    /\ read_open' = [read_open EXCEPT ![c].err = FALSE]
    /\ pc' = [pc EXCEPT ![c] = "ret"]
    /\ UNCHANGED <<vpVars, argv, cwd, timeout_seconds, status_opt, timed_out,
                   stdout_text, stderr_text, result, now, deadline, child, desc,
                   pipe_out, pipe_err, written_out, written_err, reaps, kills,
                   spawns, waitVars>>

\* err.read_to_end(&mut bytes) returns Ok, at end of file; then
\* from_utf8_lossy
DrainStderr(c) ==
    /\ pc[c] = "drain_err"
    /\ pipe_err[c] = <<>>
    /\ ~WriterOpen(c)
    /\ stderr_text' = [stderr_text EXCEPT ![c] = FromUtf8Lossy(bytes[c])]
    /\ bytes' = [bytes EXCEPT ![c] = <<>>]
    /\ read_open' = [read_open EXCEPT ![c].err = FALSE]
    /\ pc' = [pc EXCEPT ![c] = "ret"]
    /\ UNCHANGED <<vpVars, argv, cwd, timeout_seconds, status_opt, timed_out,
                   stdout_text, result, now, deadline, child, desc, pipe_out,
                   pipe_err, written_out, written_err, reaps, kills,
                   spawns, waitVars>>

\* if timed_out { return ... }
ReturnTimeout(c) ==
    /\ pc[c] = "ret"
    /\ timed_out[c]
    /\ Return(c, TimeoutResult(stdout_text[c], stderr_text[c], timeout_seconds[c]))
    /\ UNCHANGED <<vpVars, argv, cwd, timeout_seconds, status_opt, timed_out,
                   bytes, stdout_text, stderr_text, osVars>>

\* the return of a child that exited in time
ReturnExit(c) ==
    /\ pc[c] = "ret"
    /\ ~timed_out[c]
    /\ Return(c, ExitResult(status_opt[c], stdout_text[c], stderr_text[c]))
    /\ UNCHANGED <<vpVars, argv, cwd, timeout_seconds, status_opt, timed_out,
                   bytes, stdout_text, stderr_text, osVars>>

(***************************************************************************)
(* The environment: the clock, the children, their descendants.            *)
(***************************************************************************)
\* what a process at step ip of prog does next on the pipes of call c
NextStep(c, prog, ip) ==
    IF ip > Len(prog) THEN "exit"
    ELSE LET op == prog[ip] IN
         IF op = "sleep" THEN "sleep"
         ELSE IF op = "err"
              THEN (IF ~read_open[c].err THEN "sigpipe"
                    ELSE IF Len(pipe_err[c]) < PipeCap THEN "write_err"
                    ELSE "blocked")
              ELSE (IF ~read_open[c].out THEN "sigpipe"
                    ELSE IF Len(pipe_out[c]) < PipeCap THEN "write_out"
                    ELSE "blocked")

\* the write of one byte into a pipe of call c
PipeWrite(c, s, op) ==
    /\ IF s = "write_out"
       THEN /\ pipe_out' = [pipe_out EXCEPT ![c] = Append(@, ByteOf(op))]
            /\ written_out' = [written_out EXCEPT ![c] = Append(@, ByteOf(op))]
       ELSE UNCHANGED <<pipe_out, written_out>>
    /\ IF s = "write_err"
       THEN /\ pipe_err' = [pipe_err EXCEPT ![c] = Append(@, ByteOf(op))]
            /\ written_err' = [written_err EXCEPT ![c] = Append(@, ByteOf(op))]
       ELSE UNCHANGED <<pipe_err, written_err>>

\* a running child takes the next step of its program: it writes a byte
\* unless the pipe is full, it is ended by SIGPIPE when it writes to a pipe
\* whose read end is closed, or it ends by itself after its last step; its
\* end sends SIGCHLD to the process of the calls, which puts a byte in the
\* pipe of the handler once the handler is installed
ChildRun(c) ==
    /\ child[c].state = "running"
    /\ LET ch == child[c]
           s == NextStep(c, ch.prog, ch.ip)
       IN /\ s \in {"exit", "sigpipe", "write_out", "write_err"}
          /\ child' = [child EXCEPT ![c] =
                CASE s = "exit" ->
                       [ch EXCEPT !.state = "zombie", !.status = ch.plan]
                  [] s = "sigpipe" ->
                       [ch EXCEPT !.state = "zombie",
                                  !.status = Signaled(SIGPIPE)]
                  [] OTHER -> [ch EXCEPT !.ip = @ + 1]]
          /\ sigchld' = (sigchld \/ (installed /\ s \in {"exit", "sigpipe"}))
          /\ PipeWrite(c, s, IF s \in {"write_out", "write_err"}
                             THEN ch.prog[ch.ip] ELSE "sleep")
    /\ UNCHANGED <<vpVars, callVars, now, deadline, desc, read_open, reaps,
                   kills, spawns, installed, waiting, reaped_by>>

\* a child at a sleep of its program
Sleeping(c) ==
    /\ child[c].state = "running"
    /\ NextStep(c, child[c].prog, child[c].ip) = "sleep"

\* a tenth of a second passes and ends one sleep of every sleeping child.
\* Time is tracked while a child sleeps and while a call is in its bounded
\* wait, until its deadline has passed.
Tick ==
    /\ \E c \in Calls :
         \/ Sleeping(c)
         \/ pc[c] = "wait" /\ now < deadline[c]
    /\ now' = now + 1
    /\ child' = [c \in Calls |->
            IF Sleeping(c) THEN [child[c] EXCEPT !.ip = @ + 1] ELSE child[c]]
    /\ UNCHANGED <<vpVars, callVars, deadline, desc, pipe_out, pipe_err,
                   read_open, written_out, written_err, reaps, kills, spawns,
                   waitVars>>

\* the descendant writes its next byte unless the pipe is full; SIGPIPE ends
\* it when the read end is closed
DescRun(c) ==
    /\ desc[c].state = "alive"
    /\ LET d == desc[c]
           s == NextStep(c, d.prog, d.ip)
       IN /\ s \in {"sigpipe", "write_out", "write_err"}
          /\ desc' = [desc EXCEPT ![c] =
                IF s = "sigpipe" THEN [d EXCEPT !.state = "exited"]
                ELSE [d EXCEPT !.ip = @ + 1]]
          /\ PipeWrite(c, s, IF s = "sigpipe" THEN "sleep" ELSE d.prog[d.ip])
    /\ UNCHANGED <<vpVars, callVars, now, deadline, child, read_open, reaps,
                   kills, spawns, waitVars>>

\* the descendant, its writes done, ends by itself at a time of its own
\* choosing
DescExit(c) ==
    /\ desc[c].state = "alive"
    /\ desc[c].ip > Len(desc[c].prog)
    /\ desc' = [desc EXCEPT ![c] = [@ EXCEPT !.state = "exited"]]
    /\ UNCHANGED <<vpVars, callVars, now, deadline, child, pipe_out, pipe_err,
                   read_open, written_out, written_err, reaps, kills, spawns,
                   waitVars>>

(***************************************************************************)
(* The inputs and the specifications.                                      *)
(***************************************************************************)
HdrOpen == <<"@", "@", " ", "-">>
HdrClose == <<" ", "@", "@">>
Nines20 == [k \in 1..20 |-> "9"]

\* the lines the patches of the model are made of
LineVocab == {
    HdrOpen \o <<"1", " ", "+", "1">> \o HdrClose,
    HdrOpen \o <<"1", ",", "2", " ", "+", "1", ",", "1">> \o HdrClose \o <<" ", "f", "n">>,
    HdrOpen \o <<"3", ",", "0", " ", "+", "4">> \o HdrClose,
    HdrOpen \o <<"1", ",">> \o Nines20 \o <<" ", "+", "1">> \o HdrClose,
    HdrOpen \o <<"1", ",", "U+0663", " ", "+", "1">> \o HdrClose,
    HdrOpen \o <<"1", ",", "2", " ", "+", "1", ",", "3">>,
    <<" ", "a">>, <<"-", "a">>, <<"+", "a">>,
    <<"\\", " ", "N", "o", " ", "n", "e", "w", "l", "i", "n", "e">>,
    <<"-", "-", "-", " ", "a">>,
    <<"x">>, <<" ">>, <<"\f", "U+00A0">>, <<>> }

\* the lines joined by "\n"
RECURSIVE Join(_)
Join(ls) ==
    IF ls = <<>> THEN <<>>
    ELSE IF Len(ls) = 1 THEN Head(ls)
    ELSE Head(ls) \o <<"\n">> \o Join(Tail(ls))

Patches == {Join(ls) : ls \in UNION {[1..n -> LineVocab] : n \in 0..MaxLines}}

vpIdle ==
    /\ patch = <<>>
    /\ vp_pc = "idle"
    /\ line_iter = <<>>
    /\ saw_hunk = FALSE
    /\ in_hunk = FALSE
    /\ expected_old = 0
    /\ expected_new = 0
    /\ seen_old = 0
    /\ seen_new = 0
    /\ vp_result = NoResult
    /\ earlier = NoResult

osInit ==
    /\ now = 0
    /\ deadline = [c \in Calls |-> 0]
    /\ child = [c \in Calls |-> NoChild]
    /\ desc = [c \in Calls |-> NoDesc]
    /\ pipe_out = [c \in Calls |-> <<>>]
    /\ pipe_err = [c \in Calls |-> <<>>]
    /\ read_open = [c \in Calls |-> BothClosed]
    /\ written_out = [c \in Calls |-> <<>>]
    /\ written_err = [c \in Calls |-> <<>>]
    /\ reaps = [c \in Calls |-> 0]
    /\ kills = [c \in Calls |-> 0]
    /\ spawns = [c \in Calls |-> 0]
    /\ installed \in BOOLEAN
    /\ sigchld \in {FALSE, installed}
    /\ waiting = [c \in Calls |-> NotWaiting]
    /\ reaped_by = [c \in Calls |-> 0]

\* the calls of the set A are about to run, the others never run
callInit(A) ==
    /\ argv \in [Calls -> ArgvSet]
    /\ cwd \in [Calls -> CwdSet]
    /\ timeout_seconds \in [Calls -> TimeoutSet]
    /\ \A c \in Calls \ A :
         argv[c] = <<>> /\ cwd[c] = "" /\ timeout_seconds[c] = 0
    /\ pc = [c \in Calls |-> IF c \in A THEN "start" ELSE "idle"]
    /\ status_opt = [c \in Calls |-> NoStatus]
    /\ timed_out = [c \in Calls |-> FALSE]
    /\ bytes = [c \in Calls |-> <<>>]
    /\ stdout_text = [c \in Calls |-> ""]
    /\ stderr_text = [c \in Calls |-> ""]
    /\ result = [c \in Calls |-> NoResult]

\* one call of validate_patch on a patch of the model
PatchInit ==
    /\ patch \in Patches
    /\ vp_pc = "start"
    /\ line_iter = <<>>
    /\ saw_hunk = FALSE
    /\ in_hunk = FALSE
    /\ expected_old = 0
    /\ expected_new = 0
    /\ seen_old = 0
    /\ seen_new = 0
    /\ vp_result = NoResult
    /\ earlier = NoResult
    /\ callInit({})
    /\ osInit

PatchNext ==
    \/ ValidateStart
    \/ ScanHeader
    \/ ScanPreamble
    \/ ScanHunkLine
    \/ ValidateEnd

PatchSpec == PatchInit /\ [][PatchNext]_vars

\* the patches of the calls of a sequence: up to SeqLines lines, each a
\* header, a context line, an added line or a line no hunk may hold
SeqVocab == {
    HdrOpen \o <<"1", " ", "+", "1">> \o HdrClose,
    <<" ", "a">>, <<"+", "a">>, <<"x">> }

SeqPatches == {Join(ls) : ls \in UNION {[1..n -> SeqVocab] : n \in 0..SeqLines}}

\* the caller calls validate_patch again, on any patch, once the call before
\* has returned; the frame of the call before is left as it was
ValidateAgain ==
    /\ vp_pc = "done"
    /\ patch' \in SeqPatches
    /\ vp_pc' = "start"
    /\ vp_result' = NoResult
    /\ \/ earlier' = <<patch, vp_result, FALSE>>
       \/ /\ earlier /= NoResult
          /\ earlier' = [earlier EXCEPT ![3] = @ \/ earlier[1] /= patch]
    /\ UNCHANGED <<line_iter, saw_hunk, in_hunk, expected_old, expected_new,
                   seen_old, seen_new, callVars, osVars>>

\* a sequence of calls of validate_patch, one after the other
PatchSeqInit ==
    /\ PatchInit
    /\ patch \in SeqPatches

PatchSeqNext ==
    \/ ValidateStart
    \/ ScanHeader
    \/ ScanPreamble
    \/ ScanHunkLine
    \/ ValidateEnd
    \/ ValidateAgain

PatchSeqSpec == PatchSeqInit /\ [][PatchSeqNext]_vars

\* the steps of call c itself
CallStep(c) ==
    \/ EmptyArgv(c)
    \/ SpawnFail(c)
    \/ Spawn(c)
    \/ WaitError(c)
    \/ WaitEnter(c)
    \/ ProcessSigchld(c)
    \/ WaitExited(c)
    \/ WaitExpired(c)
    \/ Kill(c)
    \/ Reap(c)
    \/ ReadStdout(c)
    \/ FailStdout(c)
    \/ DrainStdout(c)
    \/ ReadStderr(c)
    \/ FailStderr(c)
    \/ DrainStderr(c)
    \/ ReturnTimeout(c)
    \/ ReturnExit(c)

\* one call of execute_command_argv
ExecInit ==
    /\ vpIdle
    /\ callInit({1})
    /\ osInit

ExecNext ==
    \/ \E c \in Calls : CallStep(c)
    \/ \E c \in Calls : ChildRun(c)
    \/ \E c \in Calls : DescRun(c)
    \/ \E c \in Calls : DescExit(c)
    \/ Tick

ExecSpec == ExecInit /\ [][ExecNext]_vars

\* the steps of call c that need no failure of the system
CallProgress(c) ==
    \/ EmptyArgv(c)
    \/ Spawn(c)
    \/ WaitEnter(c)
    \/ ProcessSigchld(c)
    \/ WaitExited(c)
    \/ WaitExpired(c)
    \/ Kill(c)
    \/ Reap(c)
    \/ ReadStdout(c)
    \/ DrainStdout(c)
    \/ ReadStderr(c)
    \/ DrainStderr(c)
    \/ ReturnTimeout(c)
    \/ ReturnExit(c)

\* the thread of a call and the processes keep running and the clock keeps
\* ticking; nothing makes a descendant of the child end, and nothing makes a
\* spawn, a wait or a read fail
ExecFairSpec ==
    /\ ExecSpec
    /\ \A c \in Calls : WF_vars(CallProgress(c))
    /\ \A c \in Calls : WF_vars(ChildRun(c))
    /\ \A c \in Calls : WF_vars(DescRun(c))
    /\ WF_vars(Tick)

\* two calls of execute_command_argv made at the same time, from two
\* threads of one process: the interpreter lock lets either go first and
\* holds the other back until the first has returned, while the children
\* and descendants of both run on
PairTimeouts == {1}

PairInit ==
    /\ vpIdle
    /\ callInit(Calls)
    /\ \A c \in Calls :
         argv[c] = <<"cmd", "arg">> /\ cwd[c] = "" /\ timeout_seconds[c] \in PairTimeouts
    /\ osInit

PairStep(c) ==
    \/ SpawnFail(c)
    \/ SpawnPair(c)
    \/ WaitError(c)
    \/ WaitEnter(c)
    \/ ProcessSigchld(c)
    \/ WaitExited(c)
    \/ WaitExpired(c)
    \/ Kill(c)
    \/ Reap(c)
    \/ ReadStdout(c)
    \/ FailStdout(c)
    \/ DrainStdout(c)
    \/ ReadStderr(c)
    \/ FailStderr(c)
    \/ DrainStderr(c)
    \/ ReturnTimeout(c)
    \/ ReturnExit(c)

PairNext ==
    \/ \E c \in Calls : PairStep(c)
    \/ \E c \in Calls : ChildRun(c)
    \/ \E c \in Calls : DescRun(c)
    \/ \E c \in Calls : DescExit(c)
    \/ Tick

PairSpec == PairInit /\ [][PairNext]_vars

(***************************************************************************)
(* Properties of validate_patch.  The hunks of a patch are read off its    *)
(* lines directly: a hunk is a header line and the lines up to the next    *)
(* header or the end of the input.                                         *)
(***************************************************************************)
\* the text has no character that is not white space
Blank(text) ==
    {k \in 1..Len(text) :
        /\ text[k] \notin {" ", "\t", "\n", "\r", "\f"}
        /\ text[k] \notin {"U+000B", "U+0085", "U+00A0", "U+1680", "U+2028",
                           "U+2029", "U+202F", "U+205F", "U+3000"}
        /\ text[k] \notin {"U+2000", "U+2001", "U+2002", "U+2003", "U+2004",
                           "U+2005", "U+2006", "U+2007", "U+2008", "U+2009",
                           "U+200A"}} = {}

IsHeader(l) == Captures(l).matched

SetMin(S) == CHOOSE m \in S : \A n \in S : m <= n

\* the lines of the hunk whose header is line i of ls
HunkBody(ls, i) ==
    LET later == {j \in (i + 1)..Len(ls) : IsHeader(ls[j])}
        last == IF later = {} THEN Len(ls) ELSE SetMin(later) - 1
    IN SubSeq(ls, i + 1, last)

OldSideLines(body) ==
    Cardinality({k \in 1..Len(body) : body[k] /= <<>> /\ body[k][1] \in {" ", "-"}})

NewSideLines(body) ==
    Cardinality({k \in 1..Len(body) : body[k] /= <<>> /\ body[k][1] \in {" ", "+"}})

HunkMatches(ls, i) ==
    /\ OldSideLines(HunkBody(ls, i)) = ExpectedCount(Captures(ls[i]).g2)
    /\ NewSideLines(HunkBody(ls, i)) = ExpectedCount(Captures(ls[i]).g4)

AllHunksMatch(ls) == \A i \in 1..Len(ls) : IsHeader(ls[i]) => HunkMatches(ls, i)

HasHeader(ls) == \E i \in 1..Len(ls) : IsHeader(ls[i])

IsMarker(l) ==
    StartsWith(l, <<"\\", " ", "N", "o", " ", "n", "e", "w", "l", "i", "n", "e">>)

\* every line after the first header that is no header is a context, removed
\* or added line, or the no-newline marker
HunkLinesSupported(ls) ==
    \A i \in 1..Len(ls) :
        (~IsHeader(ls[i]) /\ \E j \in 1..(i - 1) : IsHeader(ls[j]))
            => \/ IsMarker(ls[i])
               \/ ls[i] /= <<>> /\ ls[i][1] \in {" ", "-", "+"}

\* C1: validate_patch returns valid=true only if the old-side and new-side
\* line counts of every hunk equal the counts of the hunk's header,
\* a count of 0 included.
C1_ValidOnlyIfCountsMatch ==
    (vp_pc = "done" /\ vp_result[1]) => AllHunksMatch(Lines(patch))

\* C2: validate_patch returns (true, "ok") for every non-blank patch with at
\* least one header whose hunk lines are all context, removed, added or
\* marker lines and whose hunks all have the counts of their headers.
C2_WellFormedIsOk ==
    ( /\ vp_pc = "done"
      /\ ~Blank(patch)
      /\ HasHeader(Lines(patch))
      /\ HunkLinesSupported(Lines(patch))
      /\ AllHunksMatch(Lines(patch)) )
    => vp_result = <<TRUE, "ok">>

\* a finished call on a hunk of two old-side lines and one new-side line:
\* a context line and a removed line
C2_Witness ==
    /\ vp_pc = "done"
    /\ vp_result = <<TRUE, "ok">>
    /\ HunkLinesSupported(Lines(patch))
    /\ AllHunksMatch(Lines(patch))
    /\ expected_old = 2 /\ seen_old = 2
    /\ expected_new = 1 /\ seen_new = 1

\* C10: a patch that is empty or only white space is answered
\* (false, "Patch is empty") by the first step of the call, before
\* patch.lines() is taken, and a non-blank patch without a header is never
\* answered with that reason.
C10_BlankPatch ==
    /\ [][ (vp_pc = "start" /\ Blank(patch))
            => /\ vp_pc' = "done"
               /\ vp_result' = <<FALSE, "Patch is empty">>
               /\ line_iter' = <<>> ]_vars
    /\ []( (vp_pc = "done" /\ ~Blank(patch) /\ ~HasHeader(Lines(patch)))
            => /\ ~vp_result[1]
               /\ vp_result[2] /= "Patch is empty" )

\* a finished call on a patch of white space only that has lines
C10_Witness ==
    /\ vp_pc = "done"
    /\ patch /= <<>>
    /\ Lines(patch) /= <<>>
    /\ Blank(patch)
    /\ vp_result = <<FALSE, "Patch is empty">>

\* C11: a non-blank patch none of whose lines is a hunk header is answered
\* valid=false with the no-hunk reason and with no other reason, whatever
\* its lines are.
C11_NoHeaderNoHunk ==
    (vp_pc = "done" /\ ~Blank(patch) /\ ~HasHeader(Lines(patch)))
        => vp_result =
             <<FALSE, "Patch must contain at least one unified diff hunk (@@ ...).">>

\* a finished call on a patch without header that has a line which is no
\* context, removed, added or marker line
C11_Witness ==
    /\ vp_pc = "done"
    /\ ~Blank(patch)
    /\ ~HasHeader(Lines(patch))
    /\ \E i \in 1..Len(Lines(patch)) :
          Lines(patch)[i] /= <<>> /\ Lines(patch)[i][1] \notin {" ", "-", "+", "\\"}
    /\ vp_result[2] = NoHunkReason

\* a header with the captures g2 and g4 as its count groups, the start
\* numbers of line, and nothing after the closing "@@"
RewriteHeader(line, g2, g4) ==
    LET n1 == DigitRun(line, 5)
        c2 == OptCount(line, 5 + n1)
        n3 == DigitRun(line, c2.next + 2)
        grp(g) == IF g.some THEN <<",">> \o g.str ELSE <<>>
    IN <<"@", "@", " ", "-">> \o SubSeq(line, 5, 4 + n1) \o grp(g2)
         \o <<" ", "+">> \o SubSeq(line, c2.next + 2, c2.next + 1 + n3) \o grp(g4)
         \o <<" ", "@", "@">>

One == [some |-> TRUE, str |-> <<"1">>]

\* the header with each count that is left out written as 1 and the text
\* after the closing "@@" removed; other lines as they are
WithExplicitCounts(line) ==
    IF ~IsHeader(line) THEN line
    ELSE RewriteHeader(line,
            IF Captures(line).g2.some THEN Captures(line).g2 ELSE One,
            IF Captures(line).g4.some THEN Captures(line).g4 ELSE One)

\* the text of a sequence of lines, each line ended by "\n"
RECURSIVE TextOf(_)
TextOf(ls) ==
    IF ls = <<>> THEN <<>>
    ELSE Head(ls) \o <<"\n">> \o TextOf(Tail(ls))

ExplicitPatch(text) ==
    TextOf([i \in 1..Len(Lines(text)) |-> WithExplicitCounts(Lines(text)[i])])

\* C12: the result of a patch is the result of the same patch with every
\* left-out count of a header written as 1 and the text after the closing
\* "@@" removed.
C12_OmittedCountIsOne ==
    (vp_pc = "done" /\ HasHeader(Lines(patch)))
        => vp_result = ValidatePatch(ExplicitPatch(patch))

\* a finished valid call on a patch with a header without counts, which
\* differs from the patch with the counts written
C12_Witness ==
    /\ vp_pc = "done"
    /\ \E i \in 1..Len(Lines(patch)) :
          /\ IsHeader(Lines(patch)[i])
          /\ ~Captures(Lines(patch)[i]).g2.some
          /\ ~Captures(Lines(patch)[i]).g4.some
    /\ ExplicitPatch(patch) /= patch
    /\ vp_result = <<TRUE, "ok">>

\* C13: a call of validate_patch returns what an earlier call on the same
\* text returned, whatever calls on other texts were made in between.
C13_SameTextSameResult ==
    (vp_pc = "done" /\ earlier /= NoResult /\ earlier[1] = patch)
        => vp_result = earlier[2]

\* a call on a header has returned, after an earlier call on the same text
\* and a call on another text in between
C13_Witness ==
    /\ vp_pc = "done"
    /\ earlier /= NoResult
    /\ earlier[1] = patch
    /\ earlier[3]
    /\ HasHeader(Lines(patch))
    /\ vp_result = earlier[2]

\* the number of lines the loop has read, the line it returned on not counted
LinesRead == Len(Lines(patch)) - Len(line_iter)

\* the header of the hunk that is open after the first n lines, 0 if none
OpenHunk(ls, n) ==
    LET hs == {i \in 1..n : IsHeader(ls[i])}
    IN IF hs = {} THEN 0 ELSE CHOOSE i \in hs : \A j \in hs : j <= i

\* the lines of the open hunk among the first n lines
OpenBody(ls, n) == SubSeq(ls, OpenHunk(ls, n) + 1, n)

\* C15: a line that begins with "--- " or "+++ " and is read inside a hunk
\* changes neither seen_old nor seen_new.
C15_FileHeaderInHunkIgnored ==
    [][ ( /\ vp_pc = "scan"
          /\ in_hunk
          /\ line_iter /= <<>>
          /\ \/ StartsWith(Head(line_iter), <<"-", "-", "-", " ">>)
             \/ StartsWith(Head(line_iter), <<"+", "+", "+", " ">>) )
        => (seen_old' = seen_old /\ seen_new' = seen_new) ]_vars

\* C16: the first violation in line order ends the call: a line of a hunk
\* that is no header and starts with none of ' ', '-', '+' and the marker
\* makes the call return at that line with the reason that holds the line,
\* and a header read while the counts of the hunk before it do not match
\* makes the call return valid=false at that header.
C16_FirstViolationStops ==
    [][ ( /\ vp_pc = "scan"
          /\ line_iter /= <<>>
          /\ OpenHunk(Lines(patch), LinesRead) /= 0 )
        => LET line == Head(line_iter)
               ls == Lines(patch)
               h == OpenHunk(ls, LinesRead)
           IN /\ ( /\ ~IsHeader(line)
                   /\ ~IsMarker(line)
                   /\ (line = <<>> \/ line[1] \notin {" ", "-", "+"}) )
                 => /\ vp_pc' = "done"
                    /\ vp_result' =
                         <<FALSE, "Unsupported patch line in hunk: " \o Str(line)>>
              /\ ( /\ IsHeader(line)
                   /\ \/ OldSideLines(OpenBody(ls, LinesRead))
                            /= ExpectedCount(Captures(ls[h]).g2)
                      \/ NewSideLines(OpenBody(ls, LinesRead))
                            /= ExpectedCount(Captures(ls[h]).g4) )
                 => /\ vp_pc' = "done"
                    /\ vp_result'[1] = FALSE ]_vars

\* the call returned from a close-out check, at a header or after the loop
CloseOutFailed ==
    /\ vp_pc = "done"
    /\ ~vp_result[1]
    /\ OpenHunk(Lines(patch), LinesRead) /= 0
    /\ line_iter = <<>> \/ IsHeader(Head(line_iter))

\* C17: the reason of a failed close-out names the side with that side's
\* count of the header and the count seen; it is the old side whenever the
\* old side does not match, and the new side only when the old side matches.
C17_MismatchReason ==
    CloseOutFailed =>
        LET ls == Lines(patch)
            h == OpenHunk(ls, LinesRead)
            eo == ExpectedCount(Captures(ls[h]).g2)
            en == ExpectedCount(Captures(ls[h]).g4)
            so == OldSideLines(OpenBody(ls, LinesRead))
            sn == NewSideLines(OpenBody(ls, LinesRead))
        IN /\ so /= eo =>
                vp_result[2] = "Old-side hunk line count mismatch: expected "
                                  \o ToString(eo) \o ", got " \o ToString(so)
           /\ so = eo =>
                /\ sn /= en
                /\ vp_result[2] = "New-side hunk line count mismatch: expected "
                                      \o ToString(en) \o ", got " \o ToString(sn)

\* the index of the first header line of ls, 0 if there is none
FirstHeader(ls) ==
    IF HasHeader(ls) THEN SetMin({i \in 1..Len(ls) : IsHeader(ls[i])}) ELSE 0

\* the patch without the lines before its first header
WithoutPreamble(text) ==
    TextOf(SubSeq(Lines(text), FirstHeader(Lines(text)), Len(Lines(text))))

\* C18: the result of a patch with a header is the result of the patch
\* without the lines before its first header.
C18_PreambleNotValidated ==
    (vp_pc = "done" /\ HasHeader(Lines(patch)))
        => vp_result = ValidatePatch(WithoutPreamble(patch))

\* a finished valid call on a patch whose first line is no header and would
\* be rejected inside a hunk
C18_Witness ==
    /\ vp_pc = "done"
    /\ FirstHeader(Lines(patch)) > 1
    /\ Lines(patch)[1] = <<"x">>
    /\ vp_result = <<TRUE, "ok">>

\* a count group that is written and does not parse as usize
Unparsable(g) == g.some /\ ~ParseUsize(g.str).ok

HasUnparsableCount(line) ==
    IsHeader(line) /\ (Unparsable(Captures(line).g2) \/ Unparsable(Captures(line).g4))

\* the header with every count that does not parse written as 1
WithLiteralOne(line) ==
    IF ~HasUnparsableCount(line) THEN line
    ELSE RewriteHeader(line,
            IF Unparsable(Captures(line).g2) THEN One ELSE Captures(line).g2,
            IF Unparsable(Captures(line).g4) THEN One ELSE Captures(line).g4)

LiteralOnePatch(text) ==
    TextOf([i \in 1..Len(Lines(text)) |-> WithLiteralOne(Lines(text)[i])])

\* C19: the result of a patch with a header count that is written and does
\* not parse differs from the result of the same patch with that count
\* written as 1.
C19_SubstitutionObservable ==
    ( /\ vp_pc = "done"
      /\ \E i \in 1..Len(Lines(patch)) : HasUnparsableCount(Lines(patch)[i]) )
    => vp_result /= ValidatePatch(LiteralOnePatch(patch))

\* C20: saw_hunk and in_hunk are equal in every state of a call; in_hunk
\* never goes back to false; and a header that does not end the call sets
\* seen_old and seen_new to 0 and the expected counts to its own.
C20_FlagsAndReset ==
    /\ [](saw_hunk = in_hunk)
    /\ [][in_hunk => in_hunk']_vars
    /\ [][ ( /\ vp_pc = "scan"
              /\ line_iter /= <<>>
              /\ IsHeader(Head(line_iter))
              /\ vp_pc' = "scan" )
            => /\ in_hunk' /\ saw_hunk'
               /\ seen_old' = 0 /\ seen_new' = 0
               /\ expected_old' = ExpectedCount(Captures(Head(line_iter)).g2)
               /\ expected_new' = ExpectedCount(Captures(Head(line_iter)).g4) ]_vars
    /\ []( (vp_pc = "scan" /\ in_hunk)
            => /\ seen_old = OldSideLines(OpenBody(Lines(patch), LinesRead))
               /\ seen_new = NewSideLines(OpenBody(Lines(patch), LinesRead)) )

\* the second hunk of a patch is open, after a first hunk with a line
C20_Witness ==
    /\ vp_pc = "scan"
    /\ in_hunk /\ saw_hunk
    /\ line_iter = <<>>
    /\ OpenHunk(Lines(patch), LinesRead) = 3
    /\ IsHeader(Lines(patch)[1])
    /\ seen_old = 0 /\ seen_new = 0

(***************************************************************************)
(* Properties of execute_command_argv.                                     *)
(***************************************************************************)
IsWaitError(r) == \E e \in WaitErrors : r = WaitErrorResult(e)
IsSpawnError(r) == \E e \in SpawnErrors : r = SpawnErrorResult(e)

\* call c returned after a successful spawn and wait_timeout did not fail
ReturnedFromWait(c) ==
    pc[c] = "done" /\ spawns[c] = 1 /\ ~IsWaitError(result[c])

\* the child of call c is stopped at a write because the pipe is full
BlockedOnPipe(c) ==
    /\ child[c].state = "running"
    /\ child[c].ip <= Len(child[c].prog)
    /\ \/ /\ child[c].prog[child[c].ip] \in {"out", "outbad"}
          /\ Len(pipe_out[c]) >= PipeCap
       \/ /\ child[c].prog[child[c].ip] = "err"
          /\ Len(pipe_err[c]) >= PipeCap

\* the child of call c was killed at a write that the full pipe had stopped:
\* nothing is read before the kill, so the pipe then held all that had
\* been written
KilledWhileBlocked(c) ==
    /\ child[c].status = Signaled(SIGKILL)
    /\ child[c].ip <= Len(child[c].prog)
    /\ desc[c].state = "none"
    /\ \/ /\ child[c].prog[child[c].ip] \in {"out", "outbad"}
          /\ Len(written_out[c]) >= PipeCap
       \/ /\ child[c].prog[child[c].ip] = "err"
          /\ Len(written_err[c]) >= PipeCap

\* C3: a child that writes more than a pipe holds is never left blocked on
\* the full pipe while the call is in its bounded wait, and no call returns
\* a timeout result for a child that was killed while the full pipe had
\* stopped it.
C3_LargeOutputNotTimedOut ==
    \A c \in Calls :
        /\ pc[c] = "wait" => ~BlockedOnPipe(c)
        /\ (pc[c] = "done" /\ timed_out[c]) => ~KilledWhileBlocked(c)

\* C4: every call of execute_command_argv returns.
C4_EveryCallReturns ==
    \A c \in Calls : (pc[c] = "start") ~> (pc[c] = "done")

\* C5: whenever a call returns after a successful spawn, its child has been
\* reaped, exactly once.
C5_ChildReaped ==
    \A c \in Calls :
        (pc[c] = "done" /\ spawns[c] = 1)
            => reaps[c] = 1 /\ child[c].state = "reaped"

\* C6: when the bounded wait expires, the call kills the child, then reaps
\* it, then drains the pipes, and returns (false, -1, everything written to
\* stdout, everything written to stderr, "Command timed out after
\* <timeout>s"), where everything written is what the child wrote before the
\* kill and what its descendant wrote until the call returned, also when
\* the child has exited by itself before the kill; and a child is killed on
\* this path only.
C6_TimeoutPath ==
    \A c \in Calls :
        /\ (timed_out[c] /\ pc[c] = "reap") => kills[c] = 1 /\ reaps[c] = 0
        /\ (timed_out[c] /\ pc[c] \in {"drain_out", "drain_err", "ret", "done"})
              => kills[c] = 1 /\ reaps[c] = 1 /\ child[c].state = "reaped"
        /\ (timed_out[c] /\ pc[c] \in {"kill", "reap"})
              => pipe_out[c] = written_out[c] /\ pipe_err[c] = written_err[c]
        /\ (timed_out[c] /\ pc[c] = "done")
              => result[c] = <<FALSE, -1,
                               FromUtf8Lossy(written_out[c]),
                               FromUtf8Lossy(written_err[c]),
                               "Command timed out after "
                                   \o FormatSeconds(timeout_seconds[c]) \o "s">>
        /\ (child[c].status = Signaled(SIGKILL)) => timed_out[c]

\* C7: in every returned result success implies an empty error and exit
\* code 0, and failure implies a non-empty error; for a child that exited in
\* time with an exit code, success is true exactly when the code is 0,
\* exit_code is that code and on a non-zero code the error reports it.
C7_ResultInvariant ==
    \A c \in Calls :
        pc[c] = "done" =>
            /\ result[c][1] => (result[c][5] = "" /\ result[c][2] = 0)
            /\ ~result[c][1] => result[c][5] /= ""
            /\ ( /\ spawns[c] = 1
                 /\ ~timed_out[c]
                 /\ status_opt[c].kind = "exited" )
               => /\ status_opt[c] = child[c].plan
                  /\ result[c][1] <=> (child[c].plan.code = 0)
                  /\ result[c][2] = child[c].plan.code
                  /\ child[c].plan.code /= 0
                        => result[c][5] = "Exit code: " \o ToString(child[c].plan.code)

\* a returned call whose child exited in time with exit code 1
C7_Witness ==
    \E c \in Calls :
        /\ pc[c] = "done"
        /\ ~timed_out[c]
        /\ status_opt[c] = Exited(1)
        /\ result[c][1] = FALSE
        /\ result[c][5] = "Exit code: 1"

\* C8: exit_code = -1 is returned only for an empty argv, a spawn failure, a
\* wait failure or a timeout.
C8_MinusOneReserved ==
    \A c \in Calls :
        (pc[c] = "done" /\ result[c][2] = -1)
            => \/ result[c] = EmptyArgvResult
               \/ IsSpawnError(result[c])
               \/ IsWaitError(result[c])
               \/ timed_out[c]

\* C9: a call with an empty argv returns (false, -1, "", "", "Empty argv")
\* whatever cwd and timeout are, and at no time has a child, spawns, waits,
\* kills or reaps.
C9_EmptyArgv ==
    \A c \in Calls :
        argv[c] = <<>> =>
            /\ pc[c] \in {"idle", "start", "done"}
            /\ spawns[c] = 0 /\ kills[c] = 0 /\ reaps[c] = 0
            /\ child[c] = NoChild
            /\ pc[c] = "done" => result[c] = <<FALSE, -1, "", "", "Empty argv">>

\* a returned call with an empty argv, a working directory and a timeout
C9_Witness ==
    \E c \in Calls :
        /\ pc[c] = "done"
        /\ argv[c] = <<>>
        /\ cwd[c] /= ""
        /\ timeout_seconds[c] > 0
        /\ result[c] = EmptyArgvResult

\* the part of the state that belongs to call c
OwnState(c) ==
    <<argv[c], cwd[c], timeout_seconds[c], pc[c], status_opt[c], timed_out[c],
      bytes[c], stdout_text[c], stderr_text[c], result[c], deadline[c], child[c], desc[c],
      pipe_out[c], pipe_err[c], read_open[c], written_out[c], written_err[c],
      reaps[c], kills[c], spawns[c], waiting[c], reaped_by[c]>>

====
